---- MODULE Spec2Model ----
(***************************************************************************)
(* The 510(k) feature-engineering pipeline: download_data,                 *)
(* prepare_analytical_data, prepare_token_dummy_features_DEVICENAME and    *)
(* prepare_held_out_data, as a state machine over the files they share     *)
(* (../data and the feature_store directory).                              *)
(*                                                                         *)
(* Library semantics are those of the pandas 1.x line the scripts were     *)
(* written against: str.replace takes its pattern as a regular expression, *)
(* get_dummies yields 0/1 integers, chained assignment df[c][mask] = v     *)
(* writes through to the frame, DataFrame.apply(sum) folds each column     *)
(* with Python's builtin sum.                                              *)
(*                                                                         *)
(* Representation.  A missing value (NaN, NaT) is the empty tuple <<>> and *)
(* a present one is <<v>>.  A datetime64 value is the count of days since  *)
(* 1970-01-01.  A text is the sequence of its characters; a column name is *)
(* the sequence of its pieces.  A table is the set of its rows; a row is a *)
(* record, or a function from column names where the columns vary.         *)
(***************************************************************************)
EXTENDS Integers, Sequences, FiniteSets, TLC

VARIABLES
  dataDir,       \* ../data: the set of file names in it
  rawFile,       \* the content of the 510(k) file in ../data: a set of raw rows
  analytical,    \* feature_store/analytical_data.csv: <<>> or <<set of rows>>
  features,      \* feature_store/features_dummy.csv: <<>> or <<[cols, rows]>>
  keyFiles,      \* train/validation/test_KNUMBER.csv: name -> <<>> or <<rows>>
  token_dict,    \* feature_store/token_dict_DEVICENAME.csv: the 'tokens' column
  last,          \* the stage that ran last, its inputs and how it ended
  pc,            \* the stage in progress and the statement it has reached
  written,       \* the output files the last stage to start has replaced so far
  augRuns        \* token-augmenter runs since features_dummy.csv was rebuilt

vars == <<dataDir, rawFile, analytical, features, keyFiles, token_dict, last,
          pc, written, augRuns>>

----------------------------------------------------------------------------
(* Bounds of the model *)

\* the rows a raw file holds beyond the core ones
MaxExtra == 1
\* the runs of the token augmenter between two rebuilds of features_dummy.csv
MaxAugRuns == 2

----------------------------------------------------------------------------
(* Missing values *)

NaN == <<>>
Some(v) == <<v>>
IsNull(o) == o = <<>>
NotNull(o) == o # <<>>
Val(o) == o[1]

----------------------------------------------------------------------------
(* Dates.  pd.to_datetime reads the raw file's MM/DD/YYYY cells month       *)
(* first; a datetime is kept as days since the epoch, which is what the    *)
(* subtraction and the comparisons of the code act on.                     *)

\* days from the civil date y-m-d to 1970-01-01 (proleptic Gregorian)
DaysFromCivil(y, m, d) ==
  LET yy  == IF m <= 2 THEN y - 1 ELSE y
      era == yy \div 400
      yoe == yy - era * 400
      mp  == (m + 9) % 12
      doy == (153 * mp + 2) \div 5 + d - 1
      doe == yoe * 365 + yoe \div 4 - yoe \div 100 + doy
  IN  era * 146097 + doe - 719468

\* the civil date of a day count: the inverse of DaysFromCivil
CivilFromDays(z0) ==
  LET z   == z0 + 719468
      era == z \div 146097
      doe == z - era * 146097
      yoe == (doe - doe \div 1460 + doe \div 36524 - doe \div 146096) \div 365
      doy == doe - (365 * yoe + yoe \div 4 - yoe \div 100)
      mp  == (5 * doy + 2) \div 153
      d   == doy - (153 * mp + 2) \div 5 + 1
      m   == IF mp < 10 THEN mp + 3 ELSE mp - 9
      y   == yoe + era * 400 + (IF m <= 2 THEN 1 ELSE 0)
  IN  [yyyy |-> y, mm |-> m, dd |-> d]

\* a raw date cell: a date text, an empty cell, or a text that is no date
DateCell(m, d, y) == [kind |-> "date", mm |-> m, dd |-> d, yyyy |-> y]
EmptyCell == [kind |-> "empty", mm |-> 0, dd |-> 0, yyyy |-> 0]
BadCell == [kind |-> "text", mm |-> 0, dd |-> 0, yyyy |-> 0]

\* pd.to_datetime on a raw column raises on any cell that is no date
CanParse(cell) == cell.kind # "text"

\* pd.to_datetime of one parseable cell: NaT for an empty one
to_datetime(cell) ==
  IF cell.kind = "date" THEN Some(DaysFromCivil(cell.yyyy, cell.mm, cell.dd))
  ELSE NaN

\* to_csv writes a datetime as YYYY-MM-DD and NaT as an empty cell
DateToCsv(dt) ==
  IF IsNull(dt) THEN EmptyCell
  ELSE LET c == CivilFromDays(Val(dt)) IN DateCell(c.mm, c.dd, c.yyyy)

\* Series.dt.year
YearOf(dt) == IF IsNull(dt) THEN NaN ELSE Some(CivilFromDays(Val(dt)).yyyy)

----------------------------------------------------------------------------
(* Texts *)

UpperCase == <<"A","B","C","D","E","F","G","H","I","J","K","L","M",
               "N","O","P","Q","R","S","T","U","V","W","X","Y","Z">>
LowerCase == <<"a","b","c","d","e","f","g","h","i","j","k","l","m",
               "n","o","p","q","r","s","t","u","v","w","x","y","z">>
Digits == {"0","1","2","3","4","5","6","7","8","9"}

Range(s) == {s[i] : i \in DOMAIN s}

\* str.lower on one character
Lower(c) ==
  IF \E i \in DOMAIN UpperCase : UpperCase[i] = c
  THEN LowerCase[CHOOSE i \in DOMAIN UpperCase : UpperCase[i] = c]
  ELSE c

\* a character the regular expression \w matches
IsWordChar(c) == c \in Range(UpperCase) \cup Range(LowerCase) \cup Digits \cup {"_"}

\* str.lower on a text
LowerText(s) == [i \in DOMAIN s |-> Lower(s[i])]

\* str.replace(" ", "_"): every space becomes an underscore
SpaceToUnderscore(s) == [i \in DOMAIN s |-> IF s[i] = " " THEN "_" ELSE s[i]]

\* str.replace("\W", ""): the characters \W matches are removed
StripNonWord(s) == SelectSeq(s, IsWordChar)

\* .str.lower().str.replace(" ","_").str.replace("\W","") on one text
NormalizeText(s) == StripNonWord(SpaceToUnderscore(LowerText(s)))

\* the normalisation of a DEVICENAME cell: the .str accessor passes NaN through
NormalizeName(name) == IF IsNull(name) THEN NaN ELSE Some(NormalizeText(Val(name)))

\* t occurs in s as a run of consecutive characters
IsSubstring(t, s) ==
  \E i \in 0..(Len(s) - Len(t)) : SubSeq(s, i + 1, i + Len(t)) = t

\* str.contains(token) * 1 on one normalised cell: NaN stays NaN.  The
\* tokens of the dictionary are word characters only, for which the regular
\* expression search of str.contains is substring search.
ContainsTimes1(name, token) ==
  IF IsNull(name) THEN NaN
  ELSE Some(IF IsSubstring(token, Val(name)) THEN 1 ELSE 0)

----------------------------------------------------------------------------
(* The raw 510(k) file: the rows the model draws its inputs from *)

RawRow(k, recv, dec, pcode, comm, type, third, decision, name) ==
  [KNUMBER |-> k, DATERECEIVED |-> recv, DECISIONDATE |-> dec,
   PRODUCTCODE |-> pcode, CLASSADVISECOMM |-> comm, TYPE |-> type,
   THIRDPARTY |-> third, DECISION |-> decision, DEVICENAME |-> name]

StentName == Some(<<"C","a","r","d","i","a","c"," ","S","t","e","n","t">>)
XRayName == Some(<<"X","-","R","a","y"," ","T","u","b","e">>)
CoilName == Some(<<"M","R"," ","C","o","i","l">>)
PlainName == Some(<<"s","c","a","n","n","e","r">>)

\* six submissions that pass every filter and between them carry all eleven
\* allow-listed codes; their decision times are 73, 90, 91, 265, 266 and 455
CoreRows ==
  { RawRow("K000001", DateCell(1,1,2010), DateCell(3,15,2010), "IYE", "AN",
           "Traditional", "N", "SESE", StentName),
    RawRow("K000002", DateCell(1,1,2010), DateCell(4,1,2010), "IYN", "HE",
           "Traditional", "N", "SESE", XRayName),
    RawRow("K000003", DateCell(1,1,2010), DateCell(4,2,2010), "JJX", "IM",
           "Traditional", "N", "SESE", CoilName),
    RawRow("K000004", DateCell(1,1,2010), DateCell(9,23,2010), "LYZ", "MI",
           "Traditional", "N", "SESE", PlainName),
    RawRow("K000005", DateCell(1,1,2010), DateCell(9,24,2010), "NBW", "RA",
           "Traditional", "N", "SESE", PlainName),
    RawRow("K000006", DateCell(1,1,2010), DateCell(4,1,2011), "IYE", "TX",
           "Traditional", "N", "SESE", StentName) }

\* the core without K000005, the only row with NBW and RA
CoreWithoutNBW == {r \in CoreRows : r.KNUMBER # "K000005"}

\* further submissions, each failing one filter or sitting on an edge
ExtraRows ==
  { RawRow("K100001", DateCell(1,1,2010), DateCell(3,15,2010), "IYE", "AN",
           "Traditional", "Y", "SESE", StentName),
    RawRow("K100002", DateCell(1,1,2010), DateCell(3,15,2010), "IYE", "AN",
           "Special", "N", "SESE", StentName),
    RawRow("K100003", DateCell(1,1,2010), DateCell(3,15,2010), "IYE", "AN",
           "Traditional", "N", "SEKD", StentName),
    RawRow("K100004", DateCell(8,1,2007), DateCell(9,30,2007), "IYE", "AN",
           "Traditional", "N", "SESE", StentName),
    \* decided on the cut-off day, before it was received, codes not listed
    RawRow("K100005", DateCell(10,2,2007), DateCell(10,1,2007), "DQY", "CV",
           "Traditional", "N", "SESE", Some(<<"P","u","m","p">>)),
    \* no decision date
    RawRow("K100006", DateCell(1,1,2010), EmptyCell, "IYE", "AN",
           "Traditional", "N", "SESE", StentName),
    \* no received date and no device name
    RawRow("K100007", EmptyCell, DateCell(3,15,2010), "IYE", "AN",
           "Traditional", "N", "SESE", NaN),
    \* a received date that is no date
    RawRow("K100008", BadCell, DateCell(3,15,2010), "IYE", "AN",
           "Traditional", "N", "SESE", StentName) }

\* the contents a raw file can have
RawInputs ==
  {CoreWithoutNBW}
  \cup {CoreRows \cup extra : extra \in {e \in SUBSET ExtraRows : Cardinality(e) <= MaxExtra}}

\* the token dictionaries
Stent == <<"s","t","e","n","t">>
XRay == <<"x","r","a","y">>
Ray == <<"r","a","y">>
MrCoil == <<"m","r","_","c","o","i","l">>
Valve == <<"v","a","l","v","e">>
TokenDicts == {{Valve}, {Stent, XRay, Ray, MrCoil, Valve}}

----------------------------------------------------------------------------
(* config.json and the names of the files *)

\* config['raw_510k_filename'], and the archive download_data fetches
RawName == "pmn96cur.txt"
ZipName == "most_recent_data.zip"

\* the years the four year boundaries of config.json are drawn from
ConfigYears == {2010, 2011}
Configs == [val_start : ConfigYears, val_end : ConfigYears,
            test_start : ConfigYears, test_end : ConfigYears]
NoConfig == [val_start |-> 0, val_end |-> 0, test_start |-> 0, test_end |-> 0]

----------------------------------------------------------------------------
(* prepare_analytical_data *)

\* DECISIONDATE - DATERECEIVED, then .dt.days: NaN when either is NaT
DecisionTimeDays(recv, dec) ==
  IF IsNull(recv) \/ IsNull(dec) THEN NaN ELSE Some(Val(dec) - Val(recv))

RECURSIVE FloorLog10(_)
FloorLog10(n) == IF n < 10 THEN 0 ELSE 1 + FloorLog10(n \div 10)

\* np.log10 of the days, kept to its integer part: NaN for NaN and for a
\* negative number, -inf for 0
Log10(d) ==
  IF IsNull(d) \/ Val(d) < 0 THEN [kind |-> "nan", floor |-> 0]
  ELSE IF Val(d) = 0 THEN [kind |-> "-inf", floor |-> 0]
  ELSE [kind |-> "num", floor |-> FloorLog10(Val(d))]

\* a comparison with NaN is False
LE(d, n) == NotNull(d) /\ Val(d) <= n
GT(d, n) == NotNull(d) /\ Val(d) > n
GE(d, e) == NotNull(d) /\ NotNull(e) /\ Val(d) >= Val(e)

\* the thresholds taken as strict: "L" below 90 only
ComplexityBelow90(d) ==
  LET c0 == "H"
      c1 == IF NotNull(d) /\ Val(d) < 90 THEN "L" ELSE c0
      c2 == IF GT(d, 90) /\ LE(d, 265) THEN "M" ELSE c1
  IN  c2

\* COMPLEXITY: "H", overwritten by "L" where the days are <= 90, then by
\* "M" where they are > 90 and <= 265
Complexity(d) ==
  LET c0 == "H"
      c1 == IF LE(d, 90) THEN "L" ELSE c0
      c2 == IF GT(d, 90) /\ LE(d, 265) THEN "M" ELSE c1
  IN  c2

\* one row of the frame once the dates are parsed and the fields derived
Derive(r) ==
  LET recv == to_datetime(r.DATERECEIVED)
      dec  == to_datetime(r.DECISIONDATE)
      days == DecisionTimeDays(recv, dec)
  IN  [KNUMBER |-> r.KNUMBER, DATERECEIVED |-> recv, DECISIONDATE |-> dec,
       PRODUCTCODE |-> r.PRODUCTCODE, CLASSADVISECOMM |-> r.CLASSADVISECOMM,
       TYPE |-> r.TYPE, THIRDPARTY |-> r.THIRDPARTY, DECISION |-> r.DECISION,
       DEVICENAME |-> r.DEVICENAME, DECISION_TIME_DAYS |-> days,
       DECISION_TIME_DAYS_LOG10 |-> Log10(days), COMPLEXITY |-> Complexity(days)]

\* pd.to_datetime('10-01-2007')
Cutoff == to_datetime(DateCell(10, 1, 2007))

\* the date filter taken as strict: the cut-off day itself is dropped
KeepAfterCutoff(rows) ==
  {r \in rows : NotNull(r.DECISIONDATE) /\ Val(r.DECISIONDATE) > Val(Cutoff)}

\* the four filters, in the order the code applies them
KeepSinceCutoff(rows) == {r \in rows : GE(r.DECISIONDATE, Cutoff)}
KeepNotThirdParty(rows) == {r \in rows : r.THIRDPARTY = "N"}
KeepTraditional(rows) == {r \in rows : r.TYPE = "Traditional"}
KeepSESE(rows) == {r \in rows : r.DECISION = "SESE"}
Retain(rows) == KeepSESE(KeepTraditional(KeepNotThirdParty(KeepSinceCutoff(rows))))

\* the frame before it is saved: derived fields added, filters applied
AnalyticalFrame(raw) == Retain({Derive(r) : r \in raw})

\* to_csv of the frame: the datetimes become date texts
AnalyticalCsvRow(r) ==
  [r EXCEPT !.DATERECEIVED = DateToCsv(r.DATERECEIVED),
            !.DECISIONDATE = DateToCsv(r.DECISIONDATE)]
AnalyticalCsv(frame) == {AnalyticalCsvRow(r) : r \in frame}

KeyColumn == <<"KNUMBER">>
DummyColumn(prefix, value) == <<prefix, "_", value>>

\* pd.get_dummies: one column per value that occurs in the frame
get_dummies(frame) ==
  LET cols == {DummyColumn("PRODUCTCODE", r.PRODUCTCODE) : r \in frame}
              \cup {DummyColumn("CLASSADVISECOMM", r.CLASSADVISECOMM) : r \in frame}
      row(r) == [c \in {KeyColumn} \cup cols |->
                   IF c = KeyColumn THEN r.KNUMBER
                   ELSE IF c \in {DummyColumn("PRODUCTCODE", r.PRODUCTCODE),
                                  DummyColumn("CLASSADVISECOMM", r.CLASSADVISECOMM)}
                        THEN 1 ELSE 0]
  IN  [cols |-> {KeyColumn} \cup cols, rows |-> {row(r) : r \in frame}]

\* the columns selected for features_dummy.csv
ProductCodes == {"IYE", "IYN", "JJX", "LYZ", "NBW"}
CommitteeCodes == {"AN", "HE", "IM", "MI", "RA", "TX"}
FeatureColumns ==
  {KeyColumn} \cup {DummyColumn("PRODUCTCODE", c) : c \in ProductCodes}
              \cup {DummyColumn("CLASSADVISECOMM", c) : c \in CommitteeCodes}

\* frame[columns]: a KeyError when a column is not in the frame
CanSelect(table, cols) == cols \subseteq table.cols
SelectColumns(table, cols) ==
  [cols |-> cols, rows |-> {[c \in cols |-> row[c]] : row \in table.rows}]

\* how the checks on ../data end.  first is os.listdir("../data/")[0];
\* has501k says whether config.json has the key 'raw_501k_filename', which
\* both calls of error() read.  distutils.log.error logs and returns.
CheckRawData(dir, first, has501k) ==
  IF dir = {}
  THEN IF has501k THEN "IndexError" ELSE "KeyError"
  ELSE IF first = RawName THEN "found"
       ELSE IF has501k THEN "returned" ELSE "KeyError"

\* the messages error() has logged by the time the checks end
LoggedErrors(dir, first, has501k) ==
  IF has501k /\ (dir = {} \/ first # RawName) THEN 1 ELSE 0

\* how the transformation of a found raw file ends
TransformOutcome(raw) ==
  IF \E r \in raw : ~CanParse(r.DATERECEIVED) \/ ~CanParse(r.DECISIONDATE)
  THEN "ParserError"
  ELSE IF ~CanSelect(get_dummies(AnalyticalFrame(raw)), FeatureColumns)
       THEN "KeyError"
       ELSE "ok"

AnalyticalOutcome(dir, first, has501k, raw) ==
  LET c == CheckRawData(dir, first, has501k)
  IN  IF c = "found" THEN TransformOutcome(raw) ELSE c

\* the two tables the stage saves
AnalyticalOutput(raw) == AnalyticalCsv(AnalyticalFrame(raw))
FeaturesOutput(raw) == SelectColumns(get_dummies(AnalyticalFrame(raw)), FeatureColumns)

----------------------------------------------------------------------------
(* prepare_token_dummy_features_DEVICENAME *)

\* the column a token's indicator is stored under: the token itself
TokenColumn(token) == token

\* KNUMBER and the normalised DEVICENAME of each row of analytical_data.csv
DeviceNames(rows) ==
  {[KNUMBER |-> r.KNUMBER, DEVICENAME |-> NormalizeName(r.DEVICENAME)] : r \in rows}

\* apply(sum, axis = 0) on one token's column: Python's sum, so NaN as soon
\* as one cell is NaN
ColumnSum(names, token) ==
  IF \E n \in names : IsNull(ContainsTimes1(n.DEVICENAME, token)) THEN NaN
  ELSE Some(Cardinality({n \in names : ContainsTimes1(n.DEVICENAME, token) = Some(1)}))

\* the test on the counts taken as counts >= 0
TokensCountedAtAll(names, tokens) == {t \in tokens : NotNull(ColumnSum(names, t))}

\* counts[counts > 0].index
MappedTokens(names, tokens) == {t \in tokens : GT(ColumnSum(names, t), 0)}

\* the frame merged into features_dummy.csv: KNUMBER and the indicator of
\* every token that mapped
TokenFrame(rows, tokens) ==
  LET names == DeviceNames(rows)
      kept  == MappedTokens(names, tokens)
      cols  == {KeyColumn} \cup {TokenColumn(t) : t \in kept}
  IN  [cols |-> cols,
       rows |-> {[c \in cols |-> IF c = KeyColumn THEN n.KNUMBER
                                  ELSE Val(ContainsTimes1(n.DEVICENAME, c))]
                 : n \in names}]

SuffixX == <<"_x">>
SuffixY == <<"_y">>
Unsuffixed(c) == SubSeq(c, 1, Len(c) - 1)

\* pd.merge(left, right, on = "KNUMBER"): an inner join; a column the two
\* sides share is kept twice, as <name>_x from the left and <name>_y from
\* the right.  (Past MaxAugRuns the suffixed names would repeat names the
\* left side already has; a table here holds each name once.)
Merge(left, right) ==
  LET both   == (left.cols \cap right.cols) \ {KeyColumn}
      lplain == left.cols \ both
      rplain == right.cols \ (both \cup {KeyColumn})
      lsfx   == {c \o SuffixX : c \in both}
      rsfx   == {c \o SuffixY : c \in both}
      join(l, r) == [c \in lplain |-> l[c]]
                    @@ [c \in lsfx |-> l[Unsuffixed(c)]]
                    @@ [c \in rplain |-> r[c]]
                    @@ [c \in rsfx |-> r[Unsuffixed(c)]]
  IN  [cols |-> lplain \cup lsfx \cup rplain \cup rsfx,
       rows |-> {join(p[1], p[2]) :
                   p \in {q \in left.rows \X right.rows :
                            q[1][KeyColumn] = q[2][KeyColumn]}}]

\* the stage's result: features_dummy.csv as it is rewritten
TokenOutput(rows, tokens, feats) == Merge(feats, TokenFrame(rows, tokens))

----------------------------------------------------------------------------
(* prepare_held_out_data *)

Datasets == {"train", "validation", "test"}

\* the two overrides in the other order: "validation" written last
DatasetValidationLast(year, cfg) ==
  LET d0 == "train"
      d1 == IF NotNull(year) /\ Val(year) >= cfg.test_start /\ Val(year) <= cfg.test_end
            THEN "test" ELSE d0
      d2 == IF NotNull(year) /\ Val(year) >= cfg.val_start /\ Val(year) <= cfg.val_end
            THEN "validation" ELSE d1
  IN  d2

\* DATASET: "train", overwritten by "validation" for a year in the
\* validation range, then by "test" for a year in the test range
Dataset(year, cfg) ==
  LET d0 == "train"
      d1 == IF NotNull(year) /\ Val(year) >= cfg.val_start /\ Val(year) <= cfg.val_end
            THEN "validation" ELSE d0
      d2 == IF NotNull(year) /\ Val(year) >= cfg.test_start /\ Val(year) <= cfg.test_end
            THEN "test" ELSE d1
  IN  d2

\* index_data: the key, the date read back from analytical_data.csv, its
\* year and the data set
IndexData(rows, cfg) ==
  {LET dec == to_datetime(r.DECISIONDATE)
   IN  [KNUMBER |-> r.KNUMBER, DECISIONDATE |-> DateToCsv(dec),
        DECISIONYEAR |-> YearOf(dec), DATASET |-> Dataset(YearOf(dec), cfg)]
   : r \in rows}

\* each key file selected by its own year range instead of by DATASET
KeyFileByRange(rows, cfg, name) ==
  {i \in IndexData(rows, cfg) :
     LET inVal  == NotNull(i.DECISIONYEAR) /\ Val(i.DECISIONYEAR) >= cfg.val_start
                   /\ Val(i.DECISIONYEAR) <= cfg.val_end
         inTest == NotNull(i.DECISIONYEAR) /\ Val(i.DECISIONYEAR) >= cfg.test_start
                   /\ Val(i.DECISIONYEAR) <= cfg.test_end
     IN  CASE name = "validation" -> inVal
           [] name = "test" -> inTest
           [] OTHER -> ~inVal /\ ~inTest}

\* the rows saved to <name>_KNUMBER.csv
KeyFile(rows, cfg, name) == {i \in IndexData(rows, cfg) : i.DATASET = name}

----------------------------------------------------------------------------
(* The state machine *)

\* the files each stage saves
Outputs(stage) ==
  CASE stage = "analytical" -> {"analytical_data.csv", "features_dummy.csv"}
    [] stage = "token" -> {"features_dummy.csv"}
    [] stage = "split" -> {"train_KNUMBER.csv", "validation_KNUMBER.csv",
                           "test_KNUMBER.csv"}
    [] OTHER -> {}

Ended(stage, outcome, cfg, logged) ==
  [stage |-> stage, outcome |-> outcome, cfg |-> cfg, logged |-> logged]

\* the feature store holds only the token dictionary; ../data is empty or
\* holds the raw file
Init ==
  /\ dataDir \in {{}, {RawName}}
  /\ rawFile \in IF RawName \in dataDir THEN RawInputs ELSE {{}}
  /\ analytical = <<>>
  /\ features = <<>>
  /\ keyFiles = [n \in Datasets |-> <<>>]
  /\ token_dict \in TokenDicts
  /\ last = Ended("none", "ok", NoConfig, 0)
  /\ pc = "idle"
  /\ written = {}
  /\ augRuns = 0

\* download_data: the zip is fetched, the raw file in it extracted into
\* ../data and the zip removed
DownloadOk ==
  /\ pc = "idle"
  /\ \E content \in RawInputs :
       /\ dataDir' = (dataDir \cup {RawName}) \ {ZipName}
       /\ rawFile' = content
  /\ last' = Ended("download", "ok", NoConfig, 0)
  /\ written' = {}
  /\ UNCHANGED <<analytical, features, keyFiles, token_dict, pc, augRuns>>

\* download_data when urlretrieve raises: nothing has been saved
DownloadURLError ==
  /\ pc = "idle"
  /\ last' = Ended("download", "URLError", NoConfig, 0)
  /\ written' = {}
  /\ UNCHANGED <<dataDir, rawFile, analytical, features, keyFiles, token_dict,
                 pc, augRuns>>

\* download_data when the zip cannot be read: it stays in ../data
DownloadBadZip ==
  /\ pc = "idle"
  /\ dataDir' = dataDir \cup {ZipName}
  /\ last' = Ended("download", "BadZipFile", NoConfig, 0)
  /\ written' = {}
  /\ UNCHANGED <<rawFile, analytical, features, keyFiles, token_dict, pc, augRuns>>

\* os.listdir("../data/")[0]: any file of the directory
FirstListed(dir) == IF dir = {} THEN {""} ELSE dir

\* prepare_analytical_data up to its first to_csv: the stage ends there
\* unless the raw file was found and transformed
AnalyticalBegin ==
  /\ pc = "idle"
  /\ \E first \in FirstListed(dataDir), has501k \in BOOLEAN :
       LET outcome == AnalyticalOutcome(dataDir, first, has501k, rawFile)
           logged  == LoggedErrors(dataDir, first, has501k)
       IN  IF outcome = "ok"
           THEN /\ last' = Ended("analytical", "running", NoConfig, logged)
                /\ pc' = "analytical_data.csv"
           ELSE /\ last' = Ended("analytical", outcome, NoConfig, logged)
                /\ pc' = "idle"
  /\ written' = {}
  /\ UNCHANGED <<dataDir, rawFile, analytical, features, keyFiles, token_dict, augRuns>>

\* data_510k.to_csv(... "analytical_data.csv")
AnalyticalSaveData ==
  /\ pc = "analytical_data.csv" /\ last.stage = "analytical"
  /\ analytical' = Some(AnalyticalOutput(rawFile))
  /\ written' = written \cup {"analytical_data.csv"}
  /\ pc' = "features_dummy.csv"
  /\ UNCHANGED <<dataDir, rawFile, features, keyFiles, token_dict, last, augRuns>>

\* data_510k_features.to_csv(... "features_dummy.csv"), and the return
AnalyticalSaveFeatures ==
  /\ pc = "features_dummy.csv" /\ last.stage = "analytical"
  /\ features' = Some(FeaturesOutput(rawFile))
  /\ written' = written \cup {"features_dummy.csv"}
  /\ augRuns' = 0
  /\ last' = [last EXCEPT !.outcome = "ok"]
  /\ pc' = "idle"
  /\ UNCHANGED <<dataDir, rawFile, analytical, keyFiles, token_dict>>

\* prepare_analytical_data, from its first statement to its last
PrepareAnalyticalData ==
  /\ pc = "idle"
  /\ \E first \in FirstListed(dataDir), has501k \in BOOLEAN :
       LET outcome == AnalyticalOutcome(dataDir, first, has501k, rawFile)
           logged  == LoggedErrors(dataDir, first, has501k)
       IN  /\ last' = Ended("analytical", outcome, NoConfig, logged)
           /\ IF outcome = "ok"
              THEN /\ analytical' = Some(AnalyticalOutput(rawFile))
                   /\ features' = Some(FeaturesOutput(rawFile))
                   /\ written' = Outputs("analytical")
                   /\ augRuns' = 0
              ELSE /\ written' = {}
                   /\ UNCHANGED <<analytical, features, augRuns>>
  /\ UNCHANGED <<dataDir, rawFile, keyFiles, token_dict, pc>>

\* how prepare_token_dummy_features_DEVICENAME ends: read_csv raises when
\* a file it reads is not there
TokenOutcome ==
  IF IsNull(analytical) \/ IsNull(features) THEN "FileNotFoundError" ELSE "ok"

\* prepare_token_dummy_features_DEVICENAME, from its first statement to its
\* last: its one to_csv is its last statement
PrepareTokenDummyFeatures ==
  /\ pc = "idle" /\ augRuns < MaxAugRuns
  /\ last' = Ended("token", TokenOutcome, NoConfig, 0)
  /\ IF TokenOutcome = "ok"
     THEN /\ features' = Some(TokenOutput(Val(analytical), token_dict, Val(features)))
          /\ written' = Outputs("token")
          /\ augRuns' = augRuns + 1
     ELSE /\ written' = {}
          /\ UNCHANGED <<features, augRuns>>
  /\ UNCHANGED <<dataDir, rawFile, analytical, keyFiles, token_dict, pc>>

SplitOutcome == IF IsNull(analytical) THEN "FileNotFoundError" ELSE "ok"

\* prepare_held_out_data up to its first to_csv
SplitBegin ==
  /\ pc = "idle"
  /\ \E cfg \in Configs :
       IF SplitOutcome = "ok"
       THEN /\ last' = Ended("split", "running", cfg, 0)
            /\ pc' = "train_KNUMBER.csv"
       ELSE /\ last' = Ended("split", SplitOutcome, cfg, 0)
            /\ pc' = "idle"
  /\ written' = {}
  /\ UNCHANGED <<dataDir, rawFile, analytical, features, keyFiles, token_dict, augRuns>>

\* the to_csv of one data set's keys
SaveKeys(name, file, next) ==
  /\ pc = file /\ last.stage = "split"
  /\ keyFiles' = [keyFiles EXCEPT ![name] = Some(KeyFile(Val(analytical), last.cfg, name))]
  /\ written' = written \cup {file}
  /\ pc' = next
  /\ last' = IF next = "idle" THEN [last EXCEPT !.outcome = "ok"] ELSE last
  /\ UNCHANGED <<dataDir, rawFile, analytical, features, token_dict, augRuns>>

SplitSaveTrain == SaveKeys("train", "train_KNUMBER.csv", "validation_KNUMBER.csv")
SplitSaveValidation == SaveKeys("validation", "validation_KNUMBER.csv", "test_KNUMBER.csv")
SplitSaveTest == SaveKeys("test", "test_KNUMBER.csv", "idle")

\* prepare_held_out_data, from its first statement to its last
PrepareHeldOutData ==
  /\ pc = "idle"
  /\ \E cfg \in Configs :
       /\ last' = Ended("split", SplitOutcome, cfg, 0)
       /\ IF SplitOutcome = "ok"
          THEN /\ keyFiles' = [n \in Datasets |-> Some(KeyFile(Val(analytical), cfg, n))]
               /\ written' = Outputs("split")
          ELSE /\ written' = {}
               /\ UNCHANGED keyFiles
  /\ UNCHANGED <<dataDir, rawFile, analytical, features, token_dict, pc, augRuns>>

\* a stage stopped between two of its statements: the to_csv it was about
\* to run raises (the disk is full, the file is locked) or the process is
\* killed
Interrupted ==
  /\ pc # "idle"
  /\ pc' = "idle"
  /\ last' = [last EXCEPT !.outcome = "interrupted"]
  /\ UNCHANGED <<dataDir, rawFile, analytical, features, keyFiles, token_dict,
                 written, augRuns>>

\* the acquisition, the analytical builder and the token augmenter
Next ==
  \/ DownloadOk
  \/ DownloadURLError
  \/ DownloadBadZip
  \/ PrepareAnalyticalData
  \/ PrepareTokenDummyFeatures

Spec == Init /\ [][Next]_vars

\* the acquisition, the analytical builder and the data set splitter
NextSplit ==
  \/ DownloadOk
  \/ PrepareAnalyticalData
  \/ PrepareHeldOutData

SpecSplit == Init /\ [][NextSplit]_vars

\* the builder and the splitter on one raw file, one to_csv at a time, each
\* of which may be the last the stage runs
NextStepwise ==
  \/ AnalyticalBegin
  \/ AnalyticalSaveData
  \/ AnalyticalSaveFeatures
  \/ SplitBegin
  \/ SplitSaveTrain
  \/ SplitSaveValidation
  \/ SplitSaveTest
  \/ Interrupted

SpecStepwise == Init /\ [][NextStepwise]_vars

----------------------------------------------------------------------------
(* Properties *)

\* the stage ran from its first statement to its last
Completed(stage) == pc = "idle" /\ last.stage = stage /\ last.outcome = "ok"

\* the stage was started and is over, however it ended
Over(stage) == pc = "idle" /\ last.stage = stage

KNumbers(rows) == {r.KNUMBER : r \in rows}

\* a date text that reads as the day y-m-d or a later one
OnOrAfter(cell, y, m, d) ==
  /\ cell.kind = "date"
  /\ \/ cell.yyyy > y
     \/ cell.yyyy = y /\ cell.mm > m
     \/ cell.yyyy = y /\ cell.mm = m /\ cell.dd >= d

\* a raw row that satisfies the four retention predicates
Qualifies(r) ==
  /\ r.THIRDPARTY = "N"
  /\ r.TYPE = "Traditional"
  /\ r.DECISION = "SESE"
  /\ OnOrAfter(r.DECISIONDATE, 2007, 10, 1)

\* C1: once prepare_analytical_data has completed, every row of
\* analytical_data.csv has THIRDPARTY 'N', TYPE 'Traditional', DECISION
\* 'SESE' and a DECISIONDATE on or after 2007-10-01; the rows are those of
\* the raw rows that satisfy all four, none more and none less; and the
\* four filters applied in the opposite order keep the same rows.
C1_RetainedExactlyQualifying ==
  Completed("analytical") =>
    /\ \A w \in Val(analytical) : Qualifies(w)
    /\ KNumbers(Val(analytical)) = KNumbers({r \in rawFile : Qualifies(r)})
    /\ Cardinality(Val(analytical)) = Cardinality({r \in rawFile : Qualifies(r)})
    /\ Val(analytical) =
         AnalyticalCsv(KeepSinceCutoff(KeepNotThirdParty(KeepTraditional(KeepSESE(
           {Derive(r) : r \in rawFile})))))

\* a completed run on a raw file with a row decided on the cut-off day, which
\* is kept, or with a row that fails a filter, which is dropped
C1_Witness ==
  /\ Completed("analytical")
  /\ \E r \in rawFile : ~Qualifies(r) \/ r.DECISIONDATE = DateCell(10, 1, 2007)
  /\ Val(analytical) # {}

\* the label the claim gives a decision time
ClaimedComplexity(d) ==
  IF NotNull(d) /\ Val(d) <= 90 THEN "L"
  ELSE IF NotNull(d) /\ 90 < Val(d) /\ Val(d) <= 265 THEN "M"
  ELSE "H"

\* C2: every record gets exactly one COMPLEXITY label, decided by its
\* DECISION_TIME_DAYS d: 'L' iff d is defined and d <= 90, 'M' iff
\* 90 < d <= 265, 'H' iff d > 265 or d is undefined; 90 gives L, 91 and 265
\* give M, 266 gives H.  Stated of the rows saved and of every raw row as
\* the stage derives it.
C2_ComplexityPartition ==
  Completed("analytical") =>
    /\ \A w \in Val(analytical) :
         /\ w.COMPLEXITY \in {"L", "M", "H"}
         /\ w.COMPLEXITY = ClaimedComplexity(w.DECISION_TIME_DAYS)
    /\ \A r \in rawFile :
         Derive(r).COMPLEXITY = ClaimedComplexity(Derive(r).DECISION_TIME_DAYS)
    /\ \A w \in Val(analytical) :
         /\ w.KNUMBER = "K000001" => w.DECISION_TIME_DAYS = Some(73) /\ w.COMPLEXITY = "L"
         /\ w.KNUMBER = "K000002" => w.DECISION_TIME_DAYS = Some(90) /\ w.COMPLEXITY = "L"
         /\ w.KNUMBER = "K000003" => w.DECISION_TIME_DAYS = Some(91) /\ w.COMPLEXITY = "M"
         /\ w.KNUMBER = "K000004" => w.DECISION_TIME_DAYS = Some(265) /\ w.COMPLEXITY = "M"
         /\ w.KNUMBER = "K000005" => w.DECISION_TIME_DAYS = Some(266) /\ w.COMPLEXITY = "H"
         /\ w.KNUMBER = "K000006" => w.DECISION_TIME_DAYS = Some(455) /\ w.COMPLEXITY = "H"

\* a completed run that saved rows on both sides of either threshold and a
\* row whose decision time is undefined
C2_Witness ==
  /\ Completed("analytical")
  /\ \A d \in {90, 91, 265, 266} :
       \E w \in Val(analytical) : w.DECISION_TIME_DAYS = Some(d)
  /\ \E w \in Val(analytical) : IsNull(w.DECISION_TIME_DAYS) /\ w.COMPLEXITY = "H"

\* the keys saved to one key file
KeysIn(name) == IF IsNull(keyFiles[name]) THEN {} ELSE KNumbers(Val(keyFiles[name]))

\* C3: once prepare_held_out_data has completed, whatever the year
\* boundaries, every KNUMBER of analytical_data.csv is in exactly one of the
\* three key files and the key files hold no other KNUMBER.
C3_SplitExhaustiveExclusive ==
  Completed("split") =>
    /\ \A k \in KNumbers(Val(analytical)) :
         Cardinality({n \in Datasets : k \in KeysIn(n)}) = 1
    /\ UNION {KeysIn(n) : n \in Datasets} = KNumbers(Val(analytical))

\* a completed split, under year ranges that overlap, of a table that holds
\* more than the core rows
C3_Witness ==
  /\ Completed("split")
  /\ last.cfg.val_start <= last.cfg.test_end /\ last.cfg.test_start <= last.cfg.val_end
  /\ last.cfg.val_start <= last.cfg.val_end /\ last.cfg.test_start <= last.cfg.test_end
  /\ Cardinality(Val(analytical)) > Cardinality(CoreRows)

\* C4: run with ../data empty or holding no file of the configured name,
\* prepare_analytical_data ends in a MissingDataError and saves nothing.
C4_MissingDataError ==
  (Over("analytical") /\ RawName \notin dataDir) =>
    (last.outcome = "MissingDataError" /\ written = {})

\* C5: a stage that did not complete has replaced all of its output files
\* or none of them.
C5_AllOrNothing ==
  (pc = "idle" /\ last.stage \in {"analytical", "token", "split"}
     /\ last.outcome # "ok") =>
    written \in {{}, Outputs(last.stage)}

\* C6: a run of the token augmenter that follows a run of it, nothing else
\* having changed, leaves features_dummy.csv as it was.
C6_Idempotent ==
  [][(Completed("token") /\ Completed("token")' /\ augRuns' = augRuns + 1)
       => features' = features]_vars

\* C7: given a raw file of the configured name whose dates all parse,
\* prepare_analytical_data completes and features_dummy.csv has KNUMBER and
\* the eleven allow-listed columns.
C7_AllElevenColumns ==
  (Over("analytical") /\ dataDir = {RawName}
     /\ \A r \in rawFile : CanParse(r.DATERECEIVED) /\ CanParse(r.DECISIONDATE)) =>
    (last.outcome = "ok" /\ Val(features).cols = FeatureColumns)

\* C8: a row whose DATERECEIVED or DECISIONDATE is no date does not end
\* prepare_analytical_data: the stage goes on to the other rows.
C8_BadDateTolerated ==
  (Over("analytical") /\ dataDir = {RawName}
     /\ \E r \in rawFile : ~CanParse(r.DATERECEIVED) \/ ~CanParse(r.DECISIONDATE)) =>
    last.outcome # "ParserError"

\* the columns that hold a token's indicator: its own, and the two a later
\* merge renames it to
IndicatorColumns(t) == {TokenColumn(t), TokenColumn(t) \o SuffixX, TokenColumn(t) \o SuffixY}

\* the analytical row of a KNUMBER
AnalyticalRowOf(k) == CHOOSE a \in Val(analytical) : a.KNUMBER = k

\* the claim's test on one DEVICENAME: normalised, it contains the token
NameContains(name, t) == NotNull(name) /\ IsSubstring(t, NormalizeText(Val(name)))

ClaimedDataset(y, cfg) ==
  IF cfg.test_start <= y /\ y <= cfg.test_end THEN "test"
  ELSE IF cfg.val_start <= y /\ y <= cfg.val_end THEN "validation"
  ELSE "train"

\* C10: prepare_held_out_data labels a record by its decision year y alone:
\* 'test' for test_start <= y <= test_end, else 'validation' for
\* validation_start <= y <= validation_end, else 'train'; a year in both
\* ranges is 'test'.
C10_LabelByYear ==
  Completed("split") =>
    \A a \in Val(analytical) :
      LET label == ClaimedDataset(a.DECISIONDATE.yyyy, last.cfg)
      IN  /\ a.KNUMBER \in KeysIn(label)
          /\ \A i \in Val(keyFiles[label]) :
               i.KNUMBER = a.KNUMBER =>
                 /\ i.DATASET = label
                 /\ i.DECISIONYEAR = Some(a.DECISIONDATE.yyyy)

\* a completed split whose two ranges both hold 2011, the year of K000006,
\* and start at it
C10_Witness ==
  /\ Completed("split")
  /\ last.cfg.val_start = 2011 /\ last.cfg.val_end = 2011
  /\ last.cfg.test_start = 2011 /\ last.cfg.test_end = 2011
  /\ "K000006" \in KeysIn("test")
  /\ "K000001" \in KeysIn("train")

====
